---------------------------- MODULE Spec2Model ----------------------------
(***************************************************************************)
(* GTFS historico: processed -> cleaned transformation                     *)
(* (src/src/gtfs_historico/transform.py).                                  *)
(*                                                                         *)
(* A table (pandas DataFrame) is a record [cols, rows]: cols is the set of *)
(* column names, rows the sequence of rows in their current order.  Every  *)
(* row carries idx, its index label, which pandas keeps through filtering  *)
(* and sorting.  Seconds are integers; a float produced by a division or a *)
(* mean is an exact fraction [num, den] in lowest terms.                   *)
(***************************************************************************)
EXTENDS Integers, Sequences, FiniteSets, TLC

\* ------------------------------------------------------------------ bounds
\* Longest input table (rows) and number of calendar days that exist.
MaxRows == 3
MaxDays == 2

\* ------------------------------------------------------------- null values
\* NaN of a numeric column (to_numeric(errors="coerce") yields it); it is
\* smaller than every number of the model.
NaN == -99999
\* A value of a numeric column that does not parse as a number.
BadNum == -99998
\* <NA> of a string column.
NA == "<NA>"
\* A float NaN / <NA> produced by arithmetic (0/0); an infinity is x/0.
NullFrac == [num |-> 0, den |-> 0]

\* ------------------------------------------------------- program constants
REQUIRED_COLS == {"match_key", "route_id", "stop_id", "is_unscheduled",
                  "scheduled_seconds", "actual_seconds", "delay_seconds",
                  "delay_minutes"}
OutlierLow == -9000
OutlierHigh == 9000
RouteWindow == 5
TripWindow == 3

\* Columns by type, as coerce_types and the feature derivers leave them.
StringCols == {"match_key", "route_id", "stop_id", "trip_uid"}
NumCols == {"scheduled_seconds", "actual_seconds", "delay_seconds",
            "delay_minutes", "hour", "lagged_delay_1", "lagged_delay_2",
            "actual_headway_seconds"}
FracCols == {"hour_sin", "hour_cos", "headway_ratio", "route_rolling_delay",
             "trip_progress", "rolling_mean_delay_trip"}

\* ---------------------------------------------------------------- helpers
\* Strings of the model in code-point order (Python's str comparison).
Lexicon == <<"101N", "101S", "102N", "A", "B", "N", "R1", "R2", "S", "T1", "T2">>
StrRank(s) == CHOOSE i \in 1..Len(Lexicon) : Lexicon[i] = s

\* Last character of a stop_id (Series.str[-1]).
LastChar(s) ==
    CASE s = NA -> NA
      [] s \in {"101N", "102N"} -> "N"
      [] s = "101S" -> "S"

Abs(x) == IF x < 0 THEN -x ELSE x
Max2(a, b) == IF a >= b THEN a ELSE b

RECURSIVE Gcd(_, _)
Gcd(a, b) == IF b = 0 THEN a ELSE Gcd(b, a % b)

\* n / d as a float: the exact fraction in lowest terms, d # 0.
Frac(n, d) ==
    LET g == Gcd(Abs(n), Abs(d))
        s == IF d < 0 THEN -1 ELSE 1
    IN  [num |-> (s * n) \div g, den |-> (s * d) \div g]

\* Float division a / b of two nullable numbers, as pandas/numpy do it:
\* null if either side is null (b is null after replace(0, <NA>)),
\* x/0 is +-inf and 0/0 is NaN.
Divide(a, b) ==
    IF a = NaN \/ b = NaN THEN NullFrac
    ELSE IF b = 0 THEN (IF a = 0 THEN NullFrac
                        ELSE [num |-> IF a > 0 THEN 1 ELSE -1, den |-> 0])
    ELSE Frac(a, b)

\* Series.replace(0, pd.NA) on a numeric column.
ReplaceZero(v) == IF v = 0 THEN NaN ELSE v

RECURSIVE SumSeq(_)
SumSeq(s) == IF s = <<>> THEN 0 ELSE s[1] + SumSeq(Tail(s))

\* The non-null values of a sequence of numbers (Series.dropna()).
DropNaN(s) == SelectSeq(s, LAMBDA v : v # NaN)

\* Mean of the non-null values, null when there is none
\* (rolling(...).mean() with min_periods=1 over one window).
MeanOf(s) ==
    LET v == DropNaN(s)
    IN  IF v = <<>> THEN NullFrac ELSE Frac(SumSeq(v), Len(v))

\* Sort keys: nulls last (na_position="last"), then the value.
NumKey(v) == IF v = NaN THEN <<1, 0>> ELSE <<0, v>>
StrKey(s) == IF s = NA THEN <<1, 0>> ELSE <<0, StrRank(s)>>

\* Lexicographic strict order on integer tuples of equal length.
LexLess(a, b) ==
    \E i \in 1..Len(a) :
        /\ a[i] < b[i]
        /\ \A j \in 1..(i - 1) : a[j] = b[j]

\* DataFrame.sort_values(by=[...]) with several keys is a stable lexsort:
\* rows with equal keys keep their current relative order.  keys[i] is the
\* key tuple of rows[i].
SortRows(rows, keys) ==
    LET n == Len(rows)
        Before(k, j) == LexLess(keys[k], keys[j]) \/ (keys[k] = keys[j] /\ k < j)
        Pos(j) == 1 + Cardinality({k \in 1..n : Before(k, j)})
    IN  [i \in 1..n |-> rows[CHOOSE j \in 1..n : Pos(j) = i]]

\* r with the columns of rec added or overwritten.
SetCols(r, rec) == rec @@ r

\* Group keys are tuples; a row with a null key belongs to no group
\* (groupby drops null keys) and has the key NoGroup.
NoGroup == <<>>
GroupKey1(a) == IF a = NA THEN NoGroup ELSE <<a>>
GroupKey2(a, b) == IF a = NA \/ b = NA THEN NoGroup ELSE <<a, b>>

\* Positions of the rows of i's group, in the current order.
GroupPositions(gk, i) == SelectSeq([j \in 1..Len(gk) |-> j], LAMBDA j : gk[j] = gk[i])

\* Rank of position i inside its group (1 = first of the group).
RankInGroup(gk, i) == Cardinality({j \in 1..i : gk[j] = gk[i]})

\* groupby(g)[col].shift(n) at position i: the value n rows earlier in the
\* group, null when the group has no such row.
GroupShift(rows, gk, col, n, i) ==
    LET g == GroupPositions(gk, i)
        k == RankInGroup(gk, i)
    IN  IF gk[i] = NoGroup \/ k <= n THEN NaN ELSE rows[g[k - n]][col]

\* groupby(g)[col].diff() at position i: current minus previous of the group.
GroupDiff(rows, gk, col, i) ==
    LET prev == GroupShift(rows, gk, col, 1, i)
    IN  IF rows[i][col] = NaN \/ prev = NaN THEN NaN ELSE rows[i][col] - prev

\* Faulty variant: the mean runs over all the rows up to k, without a window.
RollingMeanExpanding(x, w, k) == MeanOf(SubSeq(x, 1, k))

\* x.rolling(window=w, min_periods=1).mean() at position k of the series x.
RollingMean(x, w, k) == MeanOf(SubSeq(x, Max2(1, k - w + 1), k))

\* groupby(g)[col].transform(lambda x: x.rolling(w, min_periods=1).mean().shift(1))
\* at position i of the current order.
GroupRollingShift(rows, gk, col, w, i) ==
    LET g == GroupPositions(gk, i)
        x == [k \in 1..Len(g) |-> rows[g[k]][col]]
        k == RankInGroup(gk, i)
    IN  IF gk[i] = NoGroup \/ k = 1 THEN NullFrac ELSE RollingMean(x, w, k - 1)

\* ---------------------------------------------------------- object names
build_processed_object(day) == <<"processed/gtfs_with_delays", "mta_delays", day>>
build_cleaned_scheduled_object(day) == <<"cleaned/gtfs_clean_scheduled", "gtfs_scheduled", day>>
build_cleaned_unscheduled_object(day) == <<"cleaned/gtfs_clean_unscheduled", "gtfs_unscheduled", day>>
build_quality_scheduled_object(day) == <<"cleaned/gtfs_clean_scheduled", "quality_report", day>>
build_quality_unscheduled_object(day) == <<"cleaned/gtfs_clean_unscheduled", "quality_report", day>>

\* ------------------------------------------------------- Schema Validator
\* validate_schema raises ValueError iff a required column is missing.
MissingCols(df) == {c \in REQUIRED_COLS : c \notin df.cols}
\* Faulty variant: the last required column is not looked at.
validate_schema_but_last(df) == MissingCols(df) \subseteq {"delay_minutes"}

validate_schema(df) == MissingCols(df) = {}

\* ------------------------------------------------------------ Type Coercer
\* pd.to_numeric(errors="coerce"): an unparsable value becomes NaN.
ToNumeric(v) == IF v = BadNum THEN NaN ELSE v

coerce_types(df) ==
    [df EXCEPT !.rows =
        [i \in 1..Len(df.rows) |->
            [df.rows[i] EXCEPT
                !.scheduled_seconds = ToNumeric(@),
                !.actual_seconds = ToNumeric(@),
                !.delay_seconds = ToNumeric(@),
                !.delay_minutes = ToNumeric(@)]]]

\* -------------------------------------------------------------- Row Filter
\* df.dropna(subset=["match_key", "stop_id"])
dropna_keys(df) ==
    [df EXCEPT !.rows =
        SelectSeq(df.rows, LAMBDA r : r.match_key # NA /\ r.stop_id # NA)]

\* Faulty variant: actual_seconds is not part of the key.
DedupKeyNoTime(r) == <<r.match_key, r.stop_id>>

DedupKey(r) == <<r.match_key, r.stop_id, r.actual_seconds>>

\* drop_duplicates(subset=...), keep="first": scan in order, remembering the
\* keys already seen (NaN keys compare equal).
RECURSIVE DropDuplicates(_, _)
DropDuplicates(rows, seen) ==
    IF rows = <<>> THEN <<>>
    ELSE IF DedupKey(Head(rows)) \in seen
         THEN DropDuplicates(Tail(rows), seen)
         ELSE <<Head(rows)>> \o DropDuplicates(Tail(rows), seen \cup {DedupKey(Head(rows))})

deduplicate(df) == [df EXCEPT !.rows = DropDuplicates(df.rows, {})]

\* Faulty variant: the bounds are excluded.
BetweenExclusive(v, lo, hi) == v # NaN /\ lo < v /\ v < hi

\* Series.between(lo, hi): inclusive on both sides, False on NaN.
Between(v, lo, hi) == v # NaN /\ lo <= v /\ v <= hi

filter_delay_outliers(df) ==
    [df EXCEPT !.rows =
        SelectSeq(df.rows, LAMBDA r : r.delay_seconds = NaN
                                      \/ Between(r.delay_seconds, OutlierLow, OutlierHigh))]

\* -------------------------------------------------- Scalar Feature Deriver
\* 2025-01-01, day 1 of the model, is a Wednesday (dayofweek 2).
DayOfWeek(day) == (day + 1) % 7

\* HH:MM:SS of a seconds value (timedelta components), null on NaN.
ClockTime(secs) ==
    IF secs = NaN THEN <<>>
    ELSE <<(secs \div 3600) % 24, (secs \div 60) % 60, secs % 60>>

HourOf(r) ==
    LET sec_base == IF r.scheduled_seconds # NaN THEN r.scheduled_seconds
                    ELSE r.actual_seconds
    IN  IF sec_base = NaN THEN NaN ELSE (sec_base \div 3600) % 24

\* math.sin(2 * math.pi * h / 24) for the hours 0..23, in millionths
\* (rounded to six decimals).
HourSinMillionths ==
    <<0, 258819, 500000, 707107, 866025, 965926,
      1000000, 965926, 866025, 707107, 500000, 258819,
      0, -258819, -500000, -707107, -866025, -965926,
      -1000000, -965926, -866025, -707107, -500000, -258819>>

\* hour_sin / hour_cos: the float as a fraction, None on a null hour;
\* cos(x) = sin(x + pi/2), a quarter of the day later.
HourSin(hour) ==
    IF hour = NaN THEN NullFrac ELSE Frac(HourSinMillionths[hour + 1], 1000000)

HourCos(hour) ==
    IF hour = NaN THEN NullFrac ELSE Frac(HourSinMillionths[((hour + 6) % 24) + 1], 1000000)

add_derivated_features(df, service_date) ==
    [cols |-> df.cols \cup {"service_date", "hour", "hour_sin", "hour_cos", "dow",
                            "is_weekend", "scheduled_time", "actual_time"},
     rows |-> [i \in 1..Len(df.rows) |->
        SetCols(df.rows[i],
            [service_date |-> service_date,
             hour |-> HourOf(df.rows[i]),
             hour_sin |-> HourSin(HourOf(df.rows[i])),
             hour_cos |-> HourCos(HourOf(df.rows[i])),
             dow |-> DayOfWeek(service_date),
             is_weekend |-> IF DayOfWeek(service_date) \in {5, 6} THEN 1 ELSE 0,
             scheduled_time |-> ClockTime(df.rows[i].scheduled_seconds),
             actual_time |-> ClockTime(df.rows[i].actual_seconds)])]]

\* ----------------------------------------------- Time-Series Feature Deriver
\* out["direction"] = out["stop_id"].str[-1]
WithDirection(rows) ==
    [i \in 1..Len(rows) |-> SetCols(rows[i], [direction |-> LastChar(rows[i].stop_id)])]

\* sort by (match_key, actual_seconds); lagged_delay_1/2 = shift(1)/shift(2)
\* of delay_seconds within match_key.
SortForLags(rows) ==
    SortRows(rows, [i \in 1..Len(rows) |->
        StrKey(rows[i].match_key) \o NumKey(rows[i].actual_seconds)])

\* Faulty variant: the shift is not grouped by match_key.
LagGroupsNone(rows) == [i \in 1..Len(rows) |-> <<"all">>]

LagGroups(rows) == [i \in 1..Len(rows) |-> GroupKey1(rows[i].match_key)]

AddLags(rows) ==
    LET s == SortForLags(rows)
        gk == LagGroups(s)
    IN  [i \in 1..Len(s) |->
            SetCols(s[i],
                [lagged_delay_1 |-> GroupShift(s, gk, "delay_seconds", 1, i),
                 lagged_delay_2 |-> GroupShift(s, gk, "delay_seconds", 2, i)])]

\* sort by (stop_id, actual_seconds); actual_headway_seconds = diff of
\* actual_seconds within stop_id.
SortForHeadway(rows) ==
    SortRows(rows, [i \in 1..Len(rows) |->
        StrKey(rows[i].stop_id) \o NumKey(rows[i].actual_seconds)])

\* Faulty variant: the difference is not grouped by stop_id.
StopGroupsNone(rows) == [i \in 1..Len(rows) |-> <<"all">>]

StopGroups(rows) == [i \in 1..Len(rows) |-> GroupKey1(rows[i].stop_id)]

AddHeadway(rows) ==
    LET s == SortForHeadway(rows)
        gk == StopGroups(s)
    IN  [i \in 1..Len(s) |->
            SetCols(s[i],
                [actual_headway_seconds |-> GroupDiff(s, gk, "actual_seconds", i)])]

\* Faulty variant: a zero previous headway is not replaced by <NA>.
PrevHeadwayUnguarded(rows, gk, i) ==
    GroupShift(rows, gk, "actual_headway_seconds", 1, i)

\* prev_headway = shift(1) of the headway within stop_id, with 0 replaced
\* by <NA>.
PrevHeadway(rows, gk, i) ==
    ReplaceZero(GroupShift(rows, gk, "actual_headway_seconds", 1, i))

\* headway_ratio = actual_headway_seconds / prev_headway
AddHeadwayRatio(rows) ==
    LET gk == StopGroups(rows)
    IN  [i \in 1..Len(rows) |->
            SetCols(rows[i],
                [headway_ratio |->
                    Divide(rows[i].actual_headway_seconds, PrevHeadway(rows, gk, i))])]

\* sort by (route_id, direction, actual_seconds); route_rolling_delay =
\* rolling(5).mean().shift(1) of delay_seconds within (route_id, direction).
SortForRoute(rows) ==
    SortRows(rows, [i \in 1..Len(rows) |->
        StrKey(rows[i].route_id) \o StrKey(rows[i].direction)
            \o NumKey(rows[i].actual_seconds)])

RouteGroups(rows) ==
    [i \in 1..Len(rows) |-> GroupKey2(rows[i].route_id, rows[i].direction)]

AddRouteRolling(rows) ==
    LET s == SortForRoute(rows)
        gk == RouteGroups(s)
    IN  [i \in 1..Len(s) |->
            SetCols(s[i],
                [route_rolling_delay |->
                    GroupRollingShift(s, gk, "delay_seconds", RouteWindow, i)])]

\* Faulty variant: the lower bound of each period is excluded.
period_of_day_open(hour) ==
    IF hour = NaN THEN NA
    ELSE IF 6 < hour /\ hour < 10 THEN "morning_peak"
    ELSE IF 10 < hour /\ hour < 16 THEN "midday"
    ELSE IF 16 < hour /\ hour < 20 THEN "evening_peak"
    ELSE "off_peak"

period_of_day(hour) ==
    IF hour = NaN THEN NA
    ELSE IF 6 <= hour /\ hour < 10 THEN "morning_peak"
    ELSE IF 10 <= hour /\ hour < 16 THEN "midday"
    ELSE IF 16 <= hour /\ hour < 20 THEN "evening_peak"
    ELSE "off_peak"

AddPeriod(rows) ==
    [i \in 1..Len(rows) |->
        SetCols(rows[i],
            [period_of_day |-> period_of_day(rows[i].hour),
             is_peak |-> IF period_of_day(rows[i].hour) \in {"morning_peak", "evening_peak"}
                         THEN 1 ELSE 0])]

\* groupby("trip_uid")["scheduled_seconds"].transform("min" / "max"):
\* nulls are skipped, null when the group has no value.
TripGroups(rows) == [i \in 1..Len(rows) |-> GroupKey1(rows[i].trip_uid)]

GroupValues(rows, gk, col, i) ==
    {rows[j][col] : j \in {k \in 1..Len(rows) : gk[k] = gk[i]}} \ {NaN}

\* Faulty variant: the minimum is taken over the whole table.
GroupMinOfAll(rows, gk, col, i) ==
    LET v == {rows[j][col] : j \in 1..Len(rows)} \ {NaN}
    IN  IF gk[i] = NoGroup \/ v = {} THEN NaN ELSE CHOOSE m \in v : \A x \in v : m <= x

GroupMin(rows, gk, col, i) ==
    LET v == GroupValues(rows, gk, col, i)
    IN  IF gk[i] = NoGroup \/ v = {} THEN NaN ELSE CHOOSE m \in v : \A x \in v : m <= x

GroupMax(rows, gk, col, i) ==
    LET v == GroupValues(rows, gk, col, i)
    IN  IF gk[i] = NoGroup \/ v = {} THEN NaN ELSE CHOOSE m \in v : \A x \in v : m >= x

\* a - b on nullable numbers.
Minus(a, b) == IF a = NaN \/ b = NaN THEN NaN ELSE a - b

\* Faulty variant: the position in the trip is measured with actual_seconds.
AddTripProgressByActual(rows) ==
    LET gk == TripGroups(rows)
    IN  [i \in 1..Len(rows) |->
            LET min_sched == GroupMin(rows, gk, "scheduled_seconds", i)
                max_sched == GroupMax(rows, gk, "scheduled_seconds", i)
                trip_duration == ReplaceZero(Minus(max_sched, min_sched))
            IN  SetCols(rows[i],
                    [trip_progress |->
                        Divide(Minus(rows[i].actual_seconds, min_sched), trip_duration)])]

AddTripProgress(rows) ==
    LET gk == TripGroups(rows)
    IN  [i \in 1..Len(rows) |->
            LET min_sched == GroupMin(rows, gk, "scheduled_seconds", i)
                max_sched == GroupMax(rows, gk, "scheduled_seconds", i)
                trip_duration == ReplaceZero(Minus(max_sched, min_sched))
            IN  SetCols(rows[i],
                    [trip_progress |->
                        Divide(Minus(rows[i].scheduled_seconds, min_sched), trip_duration)])]

\* Faulty variant: the trip is put in the order of actual_seconds.
SortForTripByActual(rows) ==
    SortRows(rows, [i \in 1..Len(rows) |->
        StrKey(rows[i].trip_uid) \o NumKey(rows[i].actual_seconds)])

\* sort by (trip_uid, scheduled_seconds); rolling_mean_delay_trip =
\* rolling(3).mean().shift(1) of delay_seconds within trip_uid.
SortForTrip(rows) ==
    SortRows(rows, [i \in 1..Len(rows) |->
        StrKey(rows[i].trip_uid) \o NumKey(rows[i].scheduled_seconds)])

AddTripRolling(rows) ==
    LET s == SortForTrip(rows)
        gk == TripGroups(s)
    IN  [i \in 1..Len(s) |->
            SetCols(s[i],
                [rolling_mean_delay_trip |->
                    GroupRollingShift(s, gk, "delay_seconds", TripWindow, i)])]

\* out.drop(columns=["direction"])
DropDirection(rows) ==
    [i \in 1..Len(rows) |-> [c \in (DOMAIN rows[i]) \ {"direction"} |-> rows[i][c]]]

\* out.sort_index(): ascending index labels.
SortIndex(rows) == SortRows(rows, [i \in 1..Len(rows) |-> <<rows[i].idx>>])

\* The rows of add_time_series_features before the final sort_index, in the
\* order the last internal sort left them.
TimeSeriesRows(df) ==
    LET r0 == WithDirection(df.rows)
        r1 == IF {"delay_seconds", "match_key"} \subseteq df.cols THEN AddLags(r0) ELSE r0
        r2 == IF {"actual_seconds", "stop_id"} \subseteq df.cols
              THEN AddHeadwayRatio(AddHeadway(r1)) ELSE r1
        r3 == IF {"delay_seconds", "route_id"} \subseteq df.cols THEN AddRouteRolling(r2) ELSE r2
        r4 == IF "hour" \in df.cols THEN AddPeriod(r3) ELSE r3
        r5 == IF {"trip_uid", "scheduled_seconds"} \subseteq df.cols
              THEN AddTripRolling(AddTripProgress(r4)) ELSE r4
    IN  DropDirection(r5)

TimeSeriesCols(df) ==
    df.cols
    \cup (IF {"delay_seconds", "match_key"} \subseteq df.cols
          THEN {"lagged_delay_1", "lagged_delay_2"} ELSE {})
    \cup (IF {"actual_seconds", "stop_id"} \subseteq df.cols
          THEN {"actual_headway_seconds", "headway_ratio"} ELSE {})
    \cup (IF {"delay_seconds", "route_id"} \subseteq df.cols
          THEN {"route_rolling_delay"} ELSE {})
    \cup (IF "hour" \in df.cols THEN {"period_of_day", "is_peak"} ELSE {})
    \cup (IF {"trip_uid", "scheduled_seconds"} \subseteq df.cols
          THEN {"trip_progress", "rolling_mean_delay_trip"} ELSE {})

\* Faulty variant: the final sort_index is left out.
RestoreOrderMissing(rows) == rows

RestoreOrder(rows) == SortIndex(rows)

add_time_series_features(df) ==
    [cols |-> TimeSeriesCols(df), rows |-> RestoreOrder(TimeSeriesRows(df))]

\* --------------------------------------------------------- Dataset Splitter
\* Faulty variant: the scheduled partition keeps rows without a timetable reference.
SplitScheduledNoDropna(df) ==
    [df EXCEPT !.rows = SelectSeq(df.rows, LAMBDA r : r.is_unscheduled = FALSE)]

\* scheduled = df[is_unscheduled == False].dropna(subset=[route_id, scheduled_seconds])
SplitScheduled(df) ==
    [df EXCEPT !.rows =
        SelectSeq(SelectSeq(df.rows, LAMBDA r : r.is_unscheduled = FALSE),
                  LAMBDA r : r.route_id # NA /\ r.scheduled_seconds # NaN)]

\* Faulty variant: the unscheduled partition is not restricted to the
\* unscheduled events.
SplitUnscheduledAll(df) ==
    [df EXCEPT !.rows = SelectSeq(df.rows, LAMBDA r : r.actual_seconds # NaN)]

\* unscheduled = df[is_unscheduled == True].dropna(subset=[actual_seconds])
SplitUnscheduled(df) ==
    [df EXCEPT !.rows =
        SelectSeq(SelectSeq(df.rows, LAMBDA r : r.is_unscheduled = TRUE),
                  LAMBDA r : r.actual_seconds # NaN)]

\* --------------------------------------------------------- Quality Reporter
IsNullIn(r, c) ==
    IF c \in StringCols \cup {"period_of_day"} THEN r[c] = NA
    ELSE IF c \in NumCols THEN r[c] = NaN
    ELSE IF c \in FracCols THEN r[c] = NullFrac
    ELSE IF c \in {"scheduled_time", "actual_time"} THEN r[c] = <<>>
    ELSE FALSE

\* The values of s in ascending order.
SortNums(s) == SortRows(s, [i \in 1..Len(s) |-> <<s[i]>>])

\* Series.quantile(qn/qd) with linear interpolation, s non-empty without nulls.
Quantile(s, qn, qd) ==
    LET v == SortNums(s)
        n == Len(v)
        lo == (qn * (n - 1)) \div qd
        rest == qn * (n - 1) - lo * qd
    IN  IF rest = 0 THEN Frac(v[lo + 1], 1)
        ELSE Frac(v[lo + 1] * qd + rest * (v[lo + 2] - v[lo + 1]), qd)

\* Faulty variant: the statistics count a null delay as 0 instead of
\* leaving it out.
quality_report_fillna(df_before, df_after, name) ==
    LET s == [i \in 1..Len(df_after.rows) |->
                IF df_after.rows[i].delay_seconds = NaN THEN 0
                ELSE df_after.rows[i].delay_seconds]
        v == SortNums(s)
    IN  [dataset |-> name,
         rows_before |-> Len(df_before.rows),
         rows_after |-> Len(df_after.rows),
         dropped_rows |-> Len(df_before.rows) - Len(df_after.rows),
         nulls_after |-> [c \in df_after.cols |->
            Cardinality({i \in 1..Len(df_after.rows) : IsNullIn(df_after.rows[i], c)})],
         delay_seconds_stats |->
            [min |-> IF s = <<>> THEN NullFrac ELSE Frac(v[1], 1),
             max |-> IF s = <<>> THEN NullFrac ELSE Frac(v[Len(v)], 1),
             mean |-> IF s = <<>> THEN NullFrac ELSE MeanOf(s),
             p50 |-> IF s = <<>> THEN NullFrac ELSE Quantile(s, 1, 2),
             p95 |-> IF s = <<>> THEN NullFrac ELSE Quantile(s, 95, 100)]]

quality_report(df_before, df_after, name) ==
    LET s == DropNaN([i \in 1..Len(df_after.rows) |-> df_after.rows[i].delay_seconds])
        v == SortNums(s)
    IN  [dataset |-> name,
         rows_before |-> Len(df_before.rows),
         rows_after |-> Len(df_after.rows),
         dropped_rows |-> Len(df_before.rows) - Len(df_after.rows),
         nulls_after |-> [c \in df_after.cols |->
            Cardinality({i \in 1..Len(df_after.rows) : IsNullIn(df_after.rows[i], c)})],
         delay_seconds_stats |->
            [min |-> IF s = <<>> THEN NullFrac ELSE Frac(v[1], 1),
             max |-> IF s = <<>> THEN NullFrac ELSE Frac(v[Len(v)], 1),
             mean |-> IF s = <<>> THEN NullFrac ELSE MeanOf(s),
             p50 |-> IF s = <<>> THEN NullFrac ELSE Quantile(s, 1, 2),
             p95 |-> IF s = <<>> THEN NullFrac ELSE Quantile(s, 95, 100)]]

\* =================================================================== state
VARIABLES
    env,        \* which credentials the environment defines
    range,      \* [start, end] given to run_transform
    store,      \* the processed input objects that exist: object name -> table
    written,    \* the cleaned objects uploaded so far: object name -> content
    reads,      \* the days whose input object has been requested
    cur,        \* the day the loop is at (d of iterate_dates)
    pc,         \* position of the program
    error,      \* the exception that ended the run, "none" while there is none
    df_before,  \* the table downloaded for the current day
    df_in,      \* the argument of the transformation step applied last
    df,         \* the table the transformation steps have produced so far
    outputs     \* the two partitions returned for the current day

vars == <<env, range, store, written, reads, cur, pc, error, df_before, df_in, df, outputs>>

NoTable == [cols |-> {}, rows |-> <<>>]
NoOutputs == [scheduled |-> NoTable, unscheduled |-> NoTable]
Days == 1..MaxDays

\* Faulty variant: the secret key is not looked at.
CredentialErrorAccessOnly(e) ==
    IF ~e.MINIO_ACCESS_KEY THEN "MINIO_ACCESS_KEY no definida" ELSE "none"

\* Both credentials are read from the environment before anything else.
CredentialError(e) ==
    IF ~e.MINIO_ACCESS_KEY THEN "MINIO_ACCESS_KEY no definida"
    ELSE IF ~e.MINIO_SECRET_KEY THEN "MINIO_SECRET_KEY no definida"
    ELSE "none"

\* download_df_parquet: the table of an object, an error when it is absent.
ObjectExists(st, obj) == obj \in DOMAIN st
download_df_parquet(st, obj) == st[obj]

\* upload_df_parquet / upload_json: the object is overwritten.
Put(w, obj, content) == [k \in (DOMAIN w) \cup {obj} |-> IF k = obj THEN content ELSE w[k]]

\* The exception propagates out of run_transform: the process ends.
Raise(e) ==
    /\ pc' = "failed"
    /\ error' = e

\* ----------------------------------------------------------------- actions
\* run_transform: credentials, then the range loop.
RunTransform ==
    /\ pc = "run_transform"
    /\ IF CredentialError(env) # "none"
       THEN /\ Raise("AssertionError")
            /\ UNCHANGED cur
       ELSE /\ pc' = "iterate"
            /\ cur' = range.start
            /\ UNCHANGED error
    /\ UNCHANGED <<env, range, store, written, reads, df_before, df_in, df, outputs>>

\* iterate_dates is exhausted: the range loop ends.
RangeDone ==
    /\ pc = "iterate"
    /\ cur > range.end
    /\ pc' = "done"
    /\ UNCHANGED <<env, range, store, written, reads, cur, error, df_before, df_in, df, outputs>>

\* The next day of the range: its input object is downloaded.
Download ==
    /\ pc = "iterate"
    /\ cur <= range.end
    /\ reads' = reads \cup {cur}
    /\ IF ObjectExists(store, build_processed_object(cur))
       THEN /\ df_before' = download_df_parquet(store, build_processed_object(cur))
            /\ pc' = "validate"
            /\ UNCHANGED error
       ELSE /\ Raise("NotFound")
            /\ UNCHANGED df_before
    /\ df_in' = NoTable
    /\ df' = NoTable
    /\ outputs' = NoOutputs
    /\ UNCHANGED <<env, range, store, written, cur>>

\* transform_processed_day_to_cleaned, one call per step.
Validate ==
    /\ pc = "validate"
    /\ IF validate_schema(df_before)
       THEN /\ pc' = "coerce"
            /\ UNCHANGED error
       ELSE Raise("ValueError")
    /\ UNCHANGED <<env, range, store, written, reads, cur, df_before, df_in, df, outputs>>

Step(from, to, result) ==
    /\ pc = from
    /\ pc' = to
    /\ df_in' = df
    /\ df' = result
    /\ UNCHANGED <<env, range, store, written, reads, cur, error, df_before, outputs>>

Coerce ==
    /\ pc = "coerce"
    /\ pc' = "dropna"
    /\ df_in' = df_before
    /\ df' = coerce_types(df_before)
    /\ UNCHANGED <<env, range, store, written, reads, cur, error, df_before, outputs>>

DropNa == Step("dropna", "deduplicate", dropna_keys(df))

Deduplicate == Step("deduplicate", "filter_outliers", deduplicate(df))

FilterOutliers == Step("filter_outliers", "derive", filter_delay_outliers(df))

AddDerived == Step("derive", "time_series", add_derivated_features(df, cur))

AddTimeSeries == Step("time_series", "split", add_time_series_features(df))

Split ==
    /\ pc = "split"
    /\ pc' = "upload_scheduled"
    /\ outputs' = [scheduled |-> SplitScheduled(df), unscheduled |-> SplitUnscheduled(df)]
    /\ UNCHANGED <<env, range, store, written, reads, cur, error, df_before, df_in, df>>

\* One upload: it either stores the object or raises.
Upload(from, to, obj, content) ==
    /\ pc = from
    /\ \E ok \in BOOLEAN :
        IF ok
        THEN /\ written' = Put(written, obj, content)
             /\ pc' = to
             /\ UNCHANGED error
        ELSE /\ Raise("UploadError")
             /\ UNCHANGED written

UploadScheduled ==
    /\ Upload("upload_scheduled", "report_scheduled",
              build_cleaned_scheduled_object(cur), outputs.scheduled)
    /\ UNCHANGED <<env, range, store, reads, cur, df_before, df_in, df, outputs>>

ReportScheduled ==
    /\ Upload("report_scheduled", "upload_unscheduled",
              build_quality_scheduled_object(cur),
              quality_report(df_before, outputs.scheduled, "scheduled"))
    /\ UNCHANGED <<env, range, store, reads, cur, df_before, df_in, df, outputs>>

UploadUnscheduled ==
    /\ Upload("upload_unscheduled", "report_unscheduled",
              build_cleaned_unscheduled_object(cur), outputs.unscheduled)
    /\ UNCHANGED <<env, range, store, reads, cur, df_before, df_in, df, outputs>>

\* The last upload of the day; the loop then moves to the next day.
ReportUnscheduled ==
    /\ Upload("report_unscheduled", "iterate",
              build_quality_unscheduled_object(cur),
              quality_report(df_before, outputs.unscheduled, "unscheduled"))
    /\ cur' = IF pc' = "iterate" THEN cur + 1 ELSE cur
    /\ UNCHANGED <<env, range, store, reads, df_before, df_in, df, outputs>>

\* ----------------------------------------------------------- input tables
AllCols == REQUIRED_COLS \cup {"trip_uid"}

\* One input row; trip_uid is a column of the table only when has_trip.
Row(mk, rt, st, un, ss, as, ds, tu) ==
    [match_key |-> mk, route_id |-> rt, stop_id |-> st, is_unscheduled |-> un,
     scheduled_seconds |-> ss, actual_seconds |-> as, delay_seconds |-> ds,
     delay_minutes |-> IF ds \in {NaN, BadNum} THEN ds ELSE ds \div 60,
     trip_uid |-> tu]

WithoutCol(r, c) == [f \in (DOMAIN r) \ {c} |-> r[f]]

\* The tables of at most n rows over a set of rows, with the index labels
\* 0, 1, 2, ... of a table read from storage (RangeIndex).
TablesOver(rowSet, cols, n) ==
    UNION {
        {[cols |-> cols,
          rows |-> [i \in 1..k |-> SetCols(s[i], [idx |-> i - 1])]] : s \in [1..k -> rowSet]}
        : k \in 0..n}

\* The same tables with one column missing.
Lacking(tables, c) ==
    {[cols |-> t.cols \ {c},
      rows |-> [i \in 1..Len(t.rows) |-> WithoutCol(t.rows[i], c)]] : t \in tables}

\* Tables of the range runs: a scheduled and an unscheduled event.
RangeRows ==
    {Row("A", "R1", "101N", FALSE, 50, 100, 50, "T1"),
     Row("B", NA, "101S", TRUE, NaN, 200, NaN, "T2")}

RangeTables ==
    LET full == TablesOver(RangeRows, AllCols, 1)
        one == TablesOver({Row("A", "R1", "101N", FALSE, 50, 100, 50, "T1")}, AllCols, 1)
    IN  full \cup Lacking(one, "delay_minutes") \cup Lacking(one, "trip_uid")

\* ------------------------------------------------------------ range runs
\* run_transform(start, end) on a store holding the input of some days.
Init ==
    /\ env \in [MINIO_ACCESS_KEY : BOOLEAN, MINIO_SECRET_KEY : BOOLEAN]
    /\ range \in [start : Days, end : Days]
    /\ store \in UNION {[{build_processed_object(d) : d \in D} -> RangeTables] : D \in SUBSET Days}
    /\ written = <<>>
    /\ reads = {}
    /\ cur = 0
    /\ pc = "run_transform"
    /\ error = "none"
    /\ df_before = NoTable
    /\ df_in = NoTable
    /\ df = NoTable
    /\ outputs = NoOutputs

Next ==
    \/ RunTransform
    \/ RangeDone
    \/ Download
    \/ Validate
    \/ Coerce
    \/ DropNa
    \/ Deduplicate
    \/ FilterOutliers
    \/ AddDerived
    \/ AddTimeSeries
    \/ Split
    \/ UploadScheduled
    \/ ReportScheduled
    \/ UploadUnscheduled
    \/ ReportUnscheduled

Spec == Init /\ [][Next]_vars

\* -------------------------------------------------------------- day runs
\* transform_processed_day_to_cleaned(df_processed, service_date) called on a
\* table, as the module's test entry point does for one day.
InitDay(tables) ==
    /\ env = [MINIO_ACCESS_KEY |-> TRUE, MINIO_SECRET_KEY |-> TRUE]
    /\ range = [start |-> 1, end |-> 1]
    /\ store = <<>>
    /\ written = <<>>
    /\ reads = {}
    /\ cur = 1
    /\ pc = "validate"
    /\ error = "none"
    /\ df_before \in tables
    /\ df_in = NoTable
    /\ df = NoTable
    /\ outputs = NoOutputs

NextDay ==
    \/ Validate
    \/ Coerce
    \/ DropNa
    \/ Deduplicate
    \/ FilterOutliers
    \/ AddDerived
    \/ AddTimeSeries
    \/ Split

\* Rows that the internal sorts reorder: two trips, two stops of opposite
\* direction, scheduled order opposite to actual order, one outlier.
OrderRows ==
    {Row(mk, "R1", st, FALSE, 400 - as, as,
         IF mk = "B" /\ st = "101S" /\ as = 100 THEN 9001 ELSE 5, mk) :
        mk \in {"A", "B"}, st \in {"101N", "101S"}, as \in {100, 200}}

\* The tables over these rows, with and without the optional trip_uid column.
OrderTables(n) ==
    LET t == TablesOver(OrderRows, AllCols, n)
    IN  t \cup Lacking(t, "trip_uid")

SpecOrder == InitDay(OrderTables(MaxRows)) /\ [][NextDay]_vars

\* Rows for the partition requirements: null route_id, scheduled_seconds and
\* actual_seconds on scheduled and unscheduled events.
SplitRows ==
    {Row(mk, c[2], "101N", c[1], c[3], c[4], 5, "T1") :
        mk \in {"A", "B"},
        c \in {<<FALSE, "R1", 50, 100>>, <<FALSE, NA, 50, 100>>, <<FALSE, "R1", NaN, 100>>,
               <<TRUE, NA, NaN, 100>>, <<TRUE, NA, NaN, NaN>>, <<TRUE, "R1", 50, NaN>>}}

SpecSplit == InitDay(TablesOver(SplitRows, AllCols, MaxRows)) /\ [][NextDay]_vars

\* Rows for the lags: two trips, two stops, ties and nulls in actual_seconds,
\* a different delay at every (stop, time).
LagDelay(st, as) ==
    CASE st = "101N" /\ as = 100 -> 5
      [] st = "101N" /\ as = 200 -> 10
      [] st = "101N" /\ as = NaN -> 15
      [] st = "102N" /\ as = 100 -> 20
      [] st = "102N" /\ as = 200 -> NaN
      [] st = "102N" /\ as = NaN -> 30

LagRows ==
    {Row(mk, "R1", st, FALSE, 50, as, LagDelay(st, as), "T1") :
        mk \in {"A", "B"}, st \in {"101N", "102N"}, as \in {100, 200, NaN}}

SpecLag == InitDay(TablesOver(LagRows, AllCols, MaxRows)) /\ [][NextDay]_vars

\* Rows for the headways: two stops, two trips passing at the same second
\* (headway 0), three distinct times.
HeadwayRows ==
    {Row(mk, "R1", st, FALSE, 50, as, 5, "T1") :
        mk \in {"A", "B"}, st \in {"101N", "102N"}, as \in {100, 130, 190}}

SpecHeadway == InitDay(TablesOver(HeadwayRows, AllCols, MaxRows)) /\ [][NextDay]_vars

\* Rows for the deduplication: null keys and repeated
\* (match_key, stop_id, actual_seconds), also on a null time.
DedupRows ==
    {Row(mk, "R1", st, FALSE, 50, as, 5, "T1") :
        mk \in {"A", "B"}, st \in {"101N", "101S"}, as \in {100, NaN}}
    \cup {Row(NA, "R1", "101N", FALSE, 50, 100, 5, "T1"),
          Row("A", "R1", NA, FALSE, 50, 100, 5, "T1")}

SpecDedup == InitDay(TablesOver(DedupRows, AllCols, MaxRows)) /\ [][NextDay]_vars

\* Rows for the outlier filter: delays on both sides of the two bounds, a
\* null delay and an unparsable one.
OutlierRows ==
    {Row("A", "R1", "101N", FALSE, 50, as, ds, "T1") :
        as \in {100, 200}, ds \in {-9001, -9000, 9000, 9001, NaN, BadNum}}

SpecOutlier == InitDay(TablesOver(OutlierRows, AllCols, MaxRows)) /\ [][NextDay]_vars

\* Rows for the rolling windows and the trip progress.  Row i of a table is
\* an event of trip T1 (match_key A) on route R1 at stop 101N; its times put
\* the rows in an order by actual_seconds and another by scheduled_seconds,
\* both different from the input order, and its delay 2^i tells which rows
\* a mean was taken over.  A variant changes one field of the row.
MaxWindowRows == 7

ActualAt(i) == 100 * ((3 * i) % 11)
ScheduledAt(i) == 100 * ((4 * i) % 11)

WindowVariants ==
    {"null_delay", "tie_actual", "null_actual", "other_route", "other_direction",
     "null_route", "other_trip", "null_trip", "null_scheduled", "tie_scheduled"}

WindowRow(i, v) ==
    Row(IF v = "tie_actual" THEN "B" ELSE "A",
        CASE v = "other_route" -> "R2" [] v = "null_route" -> NA [] OTHER -> "R1",
        CASE v = "tie_actual" -> "102N" [] v = "other_direction" -> "101S" [] OTHER -> "101N",
        FALSE,
        CASE v = "null_scheduled" -> NaN [] v = "tie_scheduled" -> ScheduledAt(i + 1)
          [] OTHER -> ScheduledAt(i),
        CASE v = "null_actual" -> NaN [] v = "tie_actual" -> ActualAt(i + 1)
          [] OTHER -> ActualAt(i),
        IF v = "null_delay" THEN NaN ELSE 2 ^ i,
        CASE v = "other_trip" -> "T2" [] v = "null_trip" -> NA [] OTHER -> "T1")

\* The tables of at most n rows in which at most two rows are variants.
WindowTables(n) ==
    UNION {
        UNION {
            {[cols |-> AllCols,
              rows |-> [i \in 1..k |->
                  SetCols(WindowRow(i, IF i \in S THEN g[i] ELSE "own"), [idx |-> i - 1])]]
                : g \in [S -> WindowVariants]}
            : S \in {{i, j} : i, j \in 1..k} \cup {{}}}
        : k \in 0..n}

\* The same runs, and the short ones also without the optional trip_uid.
SpecWindow ==
    InitDay(WindowTables(MaxWindowRows) \cup Lacking(WindowTables(MaxRows), "trip_uid"))
        /\ [][NextDay]_vars

\* Rows for the period of day: scheduled times in the last second before
\* and the first second of 06:00, 10:00, 16:00 and 20:00, one past midnight
\* of the service day (30:00:00), and rows without scheduled time whose hour
\* comes from actual_seconds or is null.
PeriodRows ==
    {Row("A", "R1", "101N", FALSE, ss, ss + 18000, 5, "T1") :
        ss \in {21599, 21600, 35999, 36000, 57599, 57600, 71999, 72000, 108000}}
    \cup {Row("A", "R1", "101N", FALSE, NaN, as, 5, "T1") : as \in {NaN, 3600, 61200}}

SpecPeriod == InitDay(TablesOver(PeriodRows, AllCols, MaxRows)) /\ [][NextDay]_vars

\* Rows for the quality reports: events of both partitions at two times,
\* with and without a delay, and an event of another trip.
ReportRows ==
    {Row("A", "R1", "101N", un, 50, as, ds, "T1") :
        un \in BOOLEAN, as \in {100, 200}, ds \in {NaN, 10}}
    \cup {Row("B", "R1", "101N", FALSE, 50, 100, 20, "T1")}

\* run_transform over day 1 alone, whose input object is one of the tables.
InitStore(tables) ==
    /\ env = [MINIO_ACCESS_KEY |-> TRUE, MINIO_SECRET_KEY |-> TRUE]
    /\ range = [start |-> 1, end |-> 1]
    /\ store \in [{build_processed_object(1)} -> tables]
    /\ written = <<>>
    /\ reads = {}
    /\ cur = 0
    /\ pc = "run_transform"
    /\ error = "none"
    /\ df_before = NoTable
    /\ df_in = NoTable
    /\ df = NoTable
    /\ outputs = NoOutputs

SpecReport == InitStore(TablesOver(ReportRows, AllCols, MaxRows)) /\ [][Next]_vars

\* Rows for the disjointness of the partitions: the same stop-event reported
\* as scheduled and as unscheduled, null times, null match_key and stop_id.
PartitionRows ==
    {Row(mk, "R1", "101N", un, 50, as, 5, "T1") :
        mk \in {"A", "B"}, un \in BOOLEAN, as \in {100, NaN}}
    \cup {Row(NA, "R1", "101N", un, 50, 100, 5, "T1") : un \in BOOLEAN}
    \cup {Row("A", "R1", NA, un, 50, 100, 5, "T1") : un \in BOOLEAN}

SpecPartition == InitDay(TablesOver(PartitionRows, AllCols, MaxRows)) /\ [][NextDay]_vars

\* ================================================================== claims
RangeDays == range.start..range.end
Ended == pc \in {"done", "failed"}

\* The four output objects of a day, and those of them written so far.
DayObjects(d) ==
    {build_cleaned_scheduled_object(d), build_quality_scheduled_object(d),
     build_cleaned_unscheduled_object(d), build_quality_unscheduled_object(d)}
DayWritten(d) == DayObjects(d) \cap DOMAIN written

\* The orchestrator is through with day d: it moved on, or the run ended on it.
DayOver(d) == d \in reads /\ (cur > d \/ pc = "failed")

\* C1: a day whose read or transformation fails does not abort the range:
\* when the run has ended, otherwise than on a configuration or upload
\* error, every day of the range has been read.
FailureContainedToDay ==
    (Ended /\ error \notin {"AssertionError", "UploadError"})
        => \A d \in RangeDays : d \in reads

\* C2: no partial writes: once the orchestrator has finished or failed on a
\* day, all four objects of that day have been written, or none.
NoPartialWrites ==
    \A d \in Days : DayOver(d) => DayWritten(d) \in {{}, DayObjects(d)}

\* C3: with a credential absent from the environment run_transform fails
\* with the configuration error before any day is processed: nothing is ever
\* read or written.
ConfigErrorBeforeAnyDay ==
    (~env.MINIO_ACCESS_KEY \/ ~env.MINIO_SECRET_KEY)
        => /\ pc \in {"run_transform", "failed"}
           /\ pc = "failed" => error = "AssertionError"
           /\ reads = {}
           /\ DOMAIN written = {}

ConfigErrorWitness ==
    /\ env.MINIO_ACCESS_KEY
    /\ ~env.MINIO_SECRET_KEY
    /\ pc = "failed"
    /\ error = "AssertionError"
    /\ RangeDays # {}
    /\ \A d \in RangeDays : build_processed_object(d) \in DOMAIN store

\* C4: a table lacking a required column fails with the schema error before
\* any other step is applied and none of the day's four objects is written;
\* a table with the eight columns passes the validation.
HasRequired(t) == REQUIRED_COLS \subseteq t.cols

SchemaCheckedFirst ==
    /\ pc \notin {"run_transform", "iterate", "validate", "done", "failed"}
            => HasRequired(df_before)
    /\ error = "ValueError"
            => /\ ~HasRequired(df_before)
               /\ pc = "failed"
               /\ df_in = NoTable /\ df = NoTable /\ outputs = NoOutputs
               /\ DayWritten(cur) = {}
    /\ (pc = "failed" /\ error = "none") => FALSE
    /\ \A d \in Days :
            (build_processed_object(d) \in DOMAIN store
                /\ ~HasRequired(store[build_processed_object(d)]))
            => DayWritten(d) = {}

SchemaErrorWitness ==
    /\ error = "ValueError"
    /\ REQUIRED_COLS \ df_before.cols = {"delay_minutes"}
    /\ Len(df_before.rows) = 1
    /\ cur = 2
    /\ DayWritten(1) = DayObjects(1)

\* --- claims about one day's transformation
IdxOf(rows) == [i \in 1..Len(rows) |-> rows[i].idx]
RowSetOf(rows) == {rows[i] : i \in 1..Len(rows)}
Increasing(s) == \A i, j \in 1..Len(s) : i < j => s[i] < s[j]

\* Validator + Coercer + Filter applied to the day's input.
Filtered(t) == filter_delay_outliers(deduplicate(dropna_keys(coerce_types(t))))

\* C5: add_time_series_features returns the rows it was given, unchanged in
\* the columns they had, in the order they had after Validator + Coercer +
\* Filter.
RowOrderRestored ==
    pc = "split" =>
        /\ IdxOf(df.rows) = IdxOf(Filtered(df_before).rows)
        /\ Len(df.rows) = Len(df_in.rows)
        /\ \A i \in 1..Len(df_in.rows) :
              \A c \in DOMAIN df_in.rows[i] : df.rows[i][c] = df_in.rows[i][c]

\* The four internal sorts ran and left another order; a row was filtered out.
RowOrderWitness ==
    /\ pc = "split"
    /\ "trip_uid" \in df.cols
    /\ Len(df.rows) = 2
    /\ Len(df_before.rows) = 3
    /\ IdxOf(df.rows) = <<0, 2>>
    /\ IdxOf(TimeSeriesRows(df_in)) = <<2, 0>>
    /\ IdxOf(SortForLags(df_in.rows)) = <<0, 2>>

\* C6: every Scheduled row has is_unscheduled = false and non-null route_id
\* and scheduled_seconds; every Unscheduled row has is_unscheduled = true and
\* non-null actual_seconds.
PartitionComplete ==
    pc = "upload_scheduled" =>
        /\ \A r \in RowSetOf(outputs.scheduled.rows) :
              r.is_unscheduled = FALSE /\ r.route_id # NA /\ r.scheduled_seconds # NaN
        /\ \A r \in RowSetOf(outputs.unscheduled.rows) :
              r.is_unscheduled = TRUE /\ r.actual_seconds # NaN

\* Both partitions get a row and a third row meets neither requirement.
PartitionWitness ==
    /\ pc = "upload_scheduled"
    /\ Len(outputs.scheduled.rows) = 1
    /\ Len(outputs.unscheduled.rows) = 1
    /\ \E r \in RowSetOf(df.rows) : r.is_unscheduled /\ r.actual_seconds = NaN

\* Order of actual_seconds, nulls last.
ActualBefore(a, b) ==
    a.actual_seconds # NaN /\ (b.actual_seconds = NaN \/ a.actual_seconds < b.actual_seconds)

\* a comes before b in the trip (match_key) of b; rows at the same time stay
\* in input order.
TripBefore(a, b) ==
    /\ a.match_key = b.match_key
    /\ \/ ActualBefore(a, b)
       \/ a.actual_seconds = b.actual_seconds /\ a.idx < b.idx

TripEarlier(rows, r) == {q \in RowSetOf(rows) : TripBefore(q, r)}

\* delay_seconds of the row n positions before r in its trip, null if none.
DelayBefore(rows, r, n) ==
    LET e == TripEarlier(rows, r)
    IN  IF Cardinality(e) < n THEN NaN
        ELSE (CHOOSE q \in e :
                Cardinality(TripEarlier(rows, q)) = Cardinality(e) - n).delay_seconds

\* C7: lagged_delay_1 / lagged_delay_2 of a row are the delay_seconds of the
\* row one / two positions before it in its match_key group ordered by
\* actual_seconds (nulls last), null when the group has no such row.
LagCorrect ==
    pc = "split" =>
        \A r \in RowSetOf(df.rows) :
            /\ r.lagged_delay_1 = DelayBefore(df.rows, r, 1)
            /\ r.lagged_delay_2 = DelayBefore(df.rows, r, 2)

\* Three events of one trip given latest first; the spec's example shape.
LagWitness ==
    /\ pc = "split"
    /\ Len(df.rows) = 3
    /\ df.rows[1].actual_seconds = NaN
    /\ df.rows[1].lagged_delay_1 = 10
    /\ df.rows[1].lagged_delay_2 = 5
    /\ df.rows[3].lagged_delay_1 = NaN
    /\ df.rows[3].lagged_delay_2 = NaN

\* a comes before b at the stop of b: by actual_seconds (nulls last); events
\* of the same second are in match_key order, then input order, which is how
\* the preceding sort by (match_key, actual_seconds) left them.
StopBefore(a, b) ==
    /\ a.stop_id = b.stop_id
    /\ \/ ActualBefore(a, b)
       \/ /\ a.actual_seconds = b.actual_seconds
          /\ \/ StrRank(a.match_key) < StrRank(b.match_key)
             \/ a.match_key = b.match_key /\ a.idx < b.idx

StopEarlier(rows, r) == {q \in RowSetOf(rows) : StopBefore(q, r)}

\* actual_headway_seconds of the row just before r at its stop, null if none.
HeadwayBefore(rows, r) ==
    LET e == StopEarlier(rows, r)
    IN  IF e = {} THEN NaN
        ELSE (CHOOSE q \in e :
                Cardinality(StopEarlier(rows, q)) = Cardinality(e) - 1).actual_headway_seconds

\* C8: headway_ratio is the row's headway divided by the previous headway of
\* the same stop when that is neither null nor zero, and null otherwise; it
\* is never infinite.
HeadwayRatioGuarded ==
    pc = "split" =>
        \A r \in RowSetOf(df.rows) :
            LET prev == HeadwayBefore(df.rows, r)
            IN  /\ (prev \notin {NaN, 0} /\ r.actual_headway_seconds # NaN)
                      => /\ r.headway_ratio.den # 0
                         /\ r.headway_ratio.num * prev
                                = r.actual_headway_seconds * r.headway_ratio.den
                /\ (prev \in {NaN, 0} \/ r.actual_headway_seconds = NaN)
                      => r.headway_ratio = NullFrac
                /\ r.headway_ratio.den = 0 => r.headway_ratio.num = 0

\* Headways [0, 30] at one stop: the ratio of the last row is guarded.
HeadwayGuardWitness ==
    /\ pc = "split"
    /\ \E r \in RowSetOf(df.rows) :
          /\ r.actual_headway_seconds = 30
          /\ HeadwayBefore(df.rows, r) = 0
          /\ r.headway_ratio = NullFrac

\* C9: filter_delay_outliers keeps a row iff its delay_seconds is null or in
\* [-9000, 9000], and keeps the rows in input order.
OutlierBoundary ==
    pc = "derive" =>
        /\ \A r \in RowSetOf(df_in.rows) :
              r \in RowSetOf(df.rows)
                <=> (r.delay_seconds = NaN
                        \/ (r.delay_seconds >= -9000 /\ r.delay_seconds <= 9000))
        /\ RowSetOf(df.rows) \subseteq RowSetOf(df_in.rows)
        /\ Increasing(IdxOf(df.rows))

OutlierWitness ==
    /\ pc = "derive"
    /\ Len(df_in.rows) = 2
    /\ df_in.rows[1].delay_seconds = 9001
    /\ df_in.rows[2].delay_seconds = 9000
    /\ IdxOf(df.rows) = <<2>>

\* C10: deduplicate returns, in input order, exactly the first occurrences
\* of each (match_key, stop_id, actual_seconds); no triple is repeated in
\* the output and none of the input is lost.
Triple(r) == <<r.match_key, r.stop_id, r.actual_seconds>>

FirstOfTriple(rows, r) == \A q \in RowSetOf(rows) : Triple(q) = Triple(r) => r.idx <= q.idx

DeduplicationKeepsFirst ==
    pc = "filter_outliers" =>
        /\ RowSetOf(df.rows) = {r \in RowSetOf(df_in.rows) : FirstOfTriple(df_in.rows, r)}
        /\ Increasing(IdxOf(df.rows))
        /\ \A i, j \in 1..Len(df.rows) : i # j => Triple(df.rows[i]) # Triple(df.rows[j])
        /\ {Triple(r) : r \in RowSetOf(df.rows)} = {Triple(r) : r \in RowSetOf(df_in.rows)}

\* A repeated stop-event with a null time, another event in between.
DeduplicationWitness ==
    /\ pc = "filter_outliers"
    /\ Len(df_in.rows) = 3
    /\ Triple(df_in.rows[1]) = Triple(df_in.rows[3])
    /\ df_in.rows[1].actual_seconds = NaN
    /\ IdxOf(df.rows) = <<0, 1>>

\* Sum of the delay_seconds of a set of rows.
RECURSIVE SumDelay(_)
SumDelay(S) ==
    IF S = {} THEN 0
    ELSE LET q == CHOOSE q \in S : TRUE IN q.delay_seconds + SumDelay(S \ {q})

\* Mean of the non-null delay_seconds of a set of rows, null if there is none.
MeanDelay(S) ==
    LET v == {q \in S : q.delay_seconds # NaN}
    IN  IF v = {} THEN NullFrac ELSE Frac(SumDelay(v), Cardinality(v))

\* a comes before b in the (route_id, direction) group of b: by actual_seconds
\* (nulls last); events of the same second are in the order the preceding
\* sort by (stop_id, actual_seconds) left them.  A row without route_id is in
\* no group.
SameRouteBefore(a, b) ==
    \/ ActualBefore(a, b)
    \/ /\ a.actual_seconds = b.actual_seconds
       /\ \/ StrRank(a.stop_id) < StrRank(b.stop_id)
          \/ StopBefore(a, b)

RouteBefore(a, b) ==
    /\ a.route_id # NA
    /\ a.route_id = b.route_id
    /\ LastChar(a.stop_id) = LastChar(b.stop_id)
    /\ SameRouteBefore(a, b)

RouteEarlier(rows, r) == {q \in RowSetOf(rows) : RouteBefore(q, r)}

\* The up to 5 rows immediately before r in its (route_id, direction) group.
RoutePrior(rows, r) ==
    {q \in RouteEarlier(rows, r) :
        Cardinality(RouteEarlier(rows, r)) - Cardinality(RouteEarlier(rows, q)) <= 5}

\* C11: route_rolling_delay of a row is the mean of the non-null
\* delay_seconds among the up to 5 rows immediately before it in its
\* (route_id, last character of stop_id) group ordered by actual_seconds
\* (nulls last), and null when there is no such value; the row's own
\* delay_seconds plays no part.
RouteRollingCorrect ==
    pc = "split" =>
        \A r \in RowSetOf(df.rows) :
            r.route_rolling_delay = MeanDelay(RoutePrior(df.rows, r))

\* Seven events of one route and direction: the latest one gets the mean of
\* the five before it, (2 + 32 + 4 + 64 + 8) / 5, the earliest of all (delay
\* 16) having left the window.
RouteRollingWitness ==
    /\ pc = "split"
    /\ Len(df.rows) = 7
    /\ Cardinality(RouteEarlier(df.rows, df.rows[7])) = 6
    /\ \A r \in RowSetOf(df.rows) : r.delay_seconds # NaN
    /\ df.rows[7].delay_seconds = 128
    /\ df.rows[7].route_rolling_delay = [num |-> 22, den |-> 1]
    /\ df.rows[4].route_rolling_delay = NullFrac

\* Order of scheduled_seconds, nulls last.
ScheduledBefore(a, b) ==
    a.scheduled_seconds # NaN
        /\ (b.scheduled_seconds = NaN \/ a.scheduled_seconds < b.scheduled_seconds)

\* Order of a string column, nulls last.
StrBefore(x, y) == x # NA /\ (y = NA \/ StrRank(x) < StrRank(y))

\* a is before b in the table sorted by (route_id, direction, actual_seconds).
SortedByRouteBefore(a, b) ==
    \/ StrBefore(a.route_id, b.route_id)
    \/ /\ a.route_id = b.route_id
       /\ \/ StrRank(LastChar(a.stop_id)) < StrRank(LastChar(b.stop_id))
          \/ /\ LastChar(a.stop_id) = LastChar(b.stop_id)
             /\ SameRouteBefore(a, b)

\* a comes before b in the trip_uid group of b: by scheduled_seconds (nulls
\* last); events scheduled at the same second are in the order the sort by
\* route left them.  A row without trip_uid is in no group.
TripUidBefore(a, b) ==
    /\ a.trip_uid # NA
    /\ a.trip_uid = b.trip_uid
    /\ \/ ScheduledBefore(a, b)
       \/ a.scheduled_seconds = b.scheduled_seconds /\ SortedByRouteBefore(a, b)

TripUidEarlier(rows, r) == {q \in RowSetOf(rows) : TripUidBefore(q, r)}

\* The up to 3 rows immediately before r in its trip_uid group.
TripPrior(rows, r) ==
    {q \in TripUidEarlier(rows, r) :
        Cardinality(TripUidEarlier(rows, r)) - Cardinality(TripUidEarlier(rows, q)) <= 3}

TripFeatures == {"trip_progress", "rolling_mean_delay_trip"}

\* C12: with a trip_uid column, rolling_mean_delay_trip of a row is the mean
\* of the non-null delay_seconds among the up to 3 rows immediately before
\* it in its trip_uid group ordered by scheduled_seconds (nulls last), the
\* row itself excluded, and null when there is none; without a trip_uid
\* column neither trip_progress nor rolling_mean_delay_trip is produced.
TripRollingCorrect ==
    pc = "split" =>
        IF "trip_uid" \in df_in.cols
        THEN /\ TripFeatures \subseteq df.cols
             /\ \A r \in RowSetOf(df.rows) :
                    r.rolling_mean_delay_trip = MeanDelay(TripPrior(df.rows, r))
        ELSE /\ TripFeatures \cap df.cols = {}
             /\ \A r \in RowSetOf(df.rows) : TripFeatures \cap DOMAIN r = {}

\* Seven events of one trip: the one scheduled last gets the mean of the
\* three scheduled just before it, (4 + 128 + 16) / 3; in the order of
\* actual_seconds only two events (delays 16 and 2) come before it.
TripRollingWitness ==
    /\ pc = "split"
    /\ Len(df.rows) = 7
    /\ Cardinality(TripUidEarlier(df.rows, df.rows[5])) = 6
    /\ Cardinality(TripEarlier(df.rows, df.rows[5])) = 2
    /\ \A r \in RowSetOf(df.rows) : r.delay_seconds # NaN
    /\ df.rows[5].rolling_mean_delay_trip = [num |-> 148, den |-> 3]
    /\ df.rows[3].rolling_mean_delay_trip = NullFrac

\* The non-null scheduled_seconds of the rows of r's trip_uid.
TripSchedules(rows, r) ==
    {q.scheduled_seconds : q \in {q \in RowSetOf(rows) : q.trip_uid = r.trip_uid}} \ {NaN}

\* C13: in a trip_uid group whose non-null scheduled_seconds are all equal,
\* or that has none, trip_progress is null on every row; no trip_progress
\* is the result of a division by zero (an infinity).
TripProgressGuarded ==
    (pc = "split" /\ "trip_uid" \in df.cols) =>
        \A r \in RowSetOf(df.rows) :
            /\ Cardinality(TripSchedules(df.rows, r)) <= 1 => r.trip_progress = NullFrac
            /\ r.trip_progress.den = 0 => r.trip_progress = NullFrac

\* A trip of three events, two scheduled at the same second and one without
\* a scheduled time: none of them has a progress.
TripProgressGuardWitness ==
    /\ pc = "split"
    /\ "trip_uid" \in df.cols
    /\ Len(df.rows) = 3
    /\ \A r \in RowSetOf(df.rows) : r.trip_uid = "T1" /\ r.trip_progress = NullFrac
    /\ df.rows[1].scheduled_seconds = df.rows[2].scheduled_seconds
    /\ df.rows[1].scheduled_seconds # NaN
    /\ df.rows[3].scheduled_seconds = NaN

\* The four objects of day d as functions of the day's input object alone:
\* none when the input is absent or fails the validation.
DayTransform(t, d) == add_time_series_features(add_derivated_features(Filtered(t), d))

ExpectedObjects(d) ==
    LET in_obj == build_processed_object(d)
        t == DayTransform(store[in_obj], d)
        content(o) ==
            CASE o = build_cleaned_scheduled_object(d) -> SplitScheduled(t)
              [] o = build_quality_scheduled_object(d)
                    -> quality_report(store[in_obj], SplitScheduled(t), "scheduled")
              [] o = build_cleaned_unscheduled_object(d) -> SplitUnscheduled(t)
              [] o = build_quality_unscheduled_object(d)
                    -> quality_report(store[in_obj], SplitUnscheduled(t), "unscheduled")
    IN  IF in_obj \in DOMAIN store /\ HasRequired(store[in_obj])
        THEN [o \in DayObjects(d) |-> content(o)]
        ELSE <<>>

\* C15: the objects written for a day depend on that day's input object
\* alone, so that the days can be processed in any order or concurrently:
\* when the run has ended, otherwise than on a configuration or upload
\* error, the objects of every day of the range are those that the day's
\* input alone determines.
DayIndependence ==
    (Ended /\ error \notin {"AssertionError", "UploadError"})
        => \A d \in RangeDays :
              [o \in DayWritten(d) |-> written[o]] = ExpectedObjects(d)

\* C16: period_of_day is morning_peak for the hours 6..9, midday for 10..15,
\* evening_peak for 16..19, off_peak for every other hour and null when the
\* hour is null; is_peak is 1 exactly on the two peak periods, and 0 (not
\* null) when the hour is null.
PeriodCorrect ==
    pc = "split" =>
        \A r \in RowSetOf(df.rows) :
            /\ r.period_of_day =
                  (CASE r.hour = NaN -> NA
                     [] r.hour \in 6..9 -> "morning_peak"
                     [] r.hour \in 10..15 -> "midday"
                     [] r.hour \in 16..19 -> "evening_peak"
                     [] r.hour \in (0..5) \cup (20..23) -> "off_peak")
            /\ r.is_peak = 1 <=> r.period_of_day \in {"morning_peak", "evening_peak"}
            /\ r.is_peak \in {0, 1}

\* An event without any time, one scheduled at 06:00:00 and one at 20:00:00.
PeriodWitness ==
    /\ pc = "split"
    /\ Len(df.rows) = 3
    /\ df.rows[1].scheduled_seconds = NaN /\ df.rows[1].actual_seconds = NaN
    /\ df.rows[1].period_of_day = NA /\ df.rows[1].is_peak = 0
    /\ df.rows[2].scheduled_seconds = 21600
    /\ df.rows[2].period_of_day = "morning_peak" /\ df.rows[2].is_peak = 1
    /\ df.rows[3].scheduled_seconds = 72000
    /\ df.rows[3].period_of_day = "off_peak" /\ df.rows[3].is_peak = 0

\* The report stored under rep_obj agrees with the partition stored under
\* part_obj and with the input table of day d.
ReportAgrees(d, part_obj, rep_obj) ==
    LET rep == written[rep_obj]
        part == written[part_obj]
        before == store[build_processed_object(d)]
        stats == rep.delay_seconds_stats
        delays == {i \in 1..Len(part.rows) : part.rows[i].delay_seconds # NaN}
    IN  /\ rep.rows_before = Len(before.rows)
        /\ rep.rows_after = Len(part.rows)
        /\ rep.dropped_rows = rep.rows_before - rep.rows_after
        /\ DOMAIN stats = {"min", "max", "mean", "p50", "p95"}
        /\ IF delays = {}
           THEN \A k \in DOMAIN stats : stats[k] = NullFrac
           ELSE \A k \in DOMAIN stats : stats[k].den # 0

\* C17: every quality report written gives the row count of the downloaded
\* table, that of the partition and their difference, and its five delay
\* statistics are all null exactly when the partition has no non-null
\* delay_seconds; building it never fails, also on an empty partition.
QualityReportCorrect ==
    /\ error \in {"none", "UploadError"}
    /\ \A d \in Days :
          /\ build_quality_scheduled_object(d) \in DOMAIN written
                => ReportAgrees(d, build_cleaned_scheduled_object(d),
                                build_quality_scheduled_object(d))
          /\ build_quality_unscheduled_object(d) \in DOMAIN written
                => ReportAgrees(d, build_cleaned_unscheduled_object(d),
                                build_quality_unscheduled_object(d))

\* A day of three scheduled events, one of them without delay: the report of
\* the scheduled partition has statistics, that of the empty unscheduled
\* partition has none.
QualityReportWitness ==
    /\ pc = "done"
    /\ written[build_quality_scheduled_object(1)].rows_before = 3
    /\ written[build_quality_scheduled_object(1)].rows_after = 3
    /\ written[build_quality_scheduled_object(1)].nulls_after["delay_seconds"] = 1
    /\ written[build_quality_scheduled_object(1)].delay_seconds_stats.mean = [num |-> 15, den |-> 1]
    /\ written[build_quality_unscheduled_object(1)].rows_after = 0
    /\ written[build_quality_unscheduled_object(1)].dropped_rows = 3
    /\ written[build_quality_unscheduled_object(1)].delay_seconds_stats.p95 = NullFrac

\* The row of the day's input table that the output row r comes from, with
\* the types coerced.
InputRowOf(r) == coerce_types(df_before).rows[r.idx + 1]

\* C18: the two partitions are disjoint subsequences of the day's input
\* rows: every output row is one input row with non-null match_key and
\* stop_id, no input row is in both partitions or twice in one, and no two
\* output rows have the same (match_key, stop_id, actual_seconds).
PartitionsDisjoint ==
    pc = "upload_scheduled" =>
        LET sched == outputs.scheduled.rows
            unsch == outputs.unscheduled.rows
            both == RowSetOf(sched) \cup RowSetOf(unsch)
        IN  /\ Increasing(IdxOf(sched))
            /\ Increasing(IdxOf(unsch))
            /\ {r.idx : r \in RowSetOf(sched)} \cap {r.idx : r \in RowSetOf(unsch)} = {}
            /\ \A r \in both :
                  /\ r.idx + 1 \in 1..Len(df_before.rows)
                  /\ \A c \in DOMAIN InputRowOf(r) : r[c] = InputRowOf(r)[c]
                  /\ r.match_key # NA
                  /\ r.stop_id # NA
            /\ \A r, q \in both : Triple(r) = Triple(q) => r = q

\* A stop-event given as scheduled and again as unscheduled, then another
\* unscheduled one: the repetition is in neither partition.
PartitionsDisjointWitness ==
    /\ pc = "upload_scheduled"
    /\ Len(df_before.rows) = 3
    /\ Triple(df_before.rows[1]) = Triple(df_before.rows[2])
    /\ ~df_before.rows[1].is_unscheduled
    /\ df_before.rows[2].is_unscheduled
    /\ IdxOf(outputs.scheduled.rows) = <<0>>
    /\ IdxOf(outputs.unscheduled.rows) = <<2>>

\* x <= y on two fractions of positive denominator.
FracLeq(x, y) == x.num * y.den <= y.num * x.den

\* C19: a non-null trip_progress lies in [0, 1]; in a trip_uid group with
\* at least two distinct scheduled_seconds the rows scheduled first have
\* progress 0, those scheduled last have progress 1, and the progress does
\* not decrease with scheduled_seconds.
TripProgressBounded ==
    (pc = "split" /\ "trip_uid" \in df.cols) =>
        \A r \in RowSetOf(df.rows) :
            LET s == TripSchedules(df.rows, r)
            IN  /\ r.trip_progress # NullFrac
                    => /\ r.trip_progress.den > 0
                       /\ 0 <= r.trip_progress.num
                       /\ r.trip_progress.num <= r.trip_progress.den
                /\ (r.trip_uid # NA /\ Cardinality(s) >= 2 /\ r.scheduled_seconds # NaN)
                    => /\ r.trip_progress # NullFrac
                       /\ (\A x \in s : r.scheduled_seconds <= x)
                            => r.trip_progress = [num |-> 0, den |-> 1]
                       /\ (\A x \in s : r.scheduled_seconds >= x)
                            => r.trip_progress = [num |-> 1, den |-> 1]
                       /\ \A q \in RowSetOf(df.rows) :
                            (q.trip_uid = r.trip_uid /\ q.scheduled_seconds # NaN
                                /\ r.scheduled_seconds <= q.scheduled_seconds)
                            => FracLeq(r.trip_progress, q.trip_progress)

\* Seven events of one trip scheduled from 100 to 900: progress 0 at the
\* first, 1 at the last, 3/8 at the one scheduled at 400.
TripProgressWitness ==
    /\ pc = "split"
    /\ Len(df.rows) = 7
    /\ \A r \in RowSetOf(df.rows) : r.trip_uid = "T1"
    /\ df.rows[3].scheduled_seconds = 100 /\ df.rows[3].trip_progress = [num |-> 0, den |-> 1]
    /\ df.rows[5].scheduled_seconds = 900 /\ df.rows[5].trip_progress = [num |-> 1, den |-> 1]
    /\ df.rows[1].scheduled_seconds = 400 /\ df.rows[1].trip_progress = [num |-> 3, den |-> 8]

\* The row just before r at its stop, r not being the first one there.
StopPrevious(rows, r) ==
    CHOOSE q \in StopEarlier(rows, r) :
        Cardinality(StopEarlier(rows, q)) = Cardinality(StopEarlier(rows, r)) - 1

\* C20: actual_headway_seconds is null or non-negative: null on the first
\* row of each stop_id group in the order of actual_seconds (nulls last)
\* and on a row whose own or whose predecessor's actual_seconds is null,
\* and otherwise the row's actual_seconds minus that of the row just before
\* it at the same stop.
HeadwayCorrect ==
    pc = "split" =>
        \A r \in RowSetOf(df.rows) :
            /\ r.actual_headway_seconds =
                  (IF StopEarlier(df.rows, r) = {} THEN NaN
                   ELSE IF r.actual_seconds = NaN THEN NaN
                   ELSE IF StopPrevious(df.rows, r).actual_seconds = NaN THEN NaN
                   ELSE r.actual_seconds - StopPrevious(df.rows, r).actual_seconds)
            /\ r.actual_headway_seconds = NaN \/ r.actual_headway_seconds >= 0

\* Two events at one stop given latest first, and between them an event at
\* another stop: only the later event of the first stop has a headway.
HeadwayWitness ==
    /\ pc = "split"
    /\ Len(df.rows) = 3
    /\ df.rows[1].stop_id = df.rows[3].stop_id
    /\ df.rows[2].stop_id # df.rows[1].stop_id
    /\ df.rows[1].actual_seconds = 200
    /\ df.rows[2].actual_seconds = 100
    /\ df.rows[3].actual_seconds = 100
    /\ df.rows[1].actual_headway_seconds = 100
    /\ df.rows[2].actual_headway_seconds = NaN
    /\ df.rows[3].actual_headway_seconds = NaN

====
